---- MODULE Spec2Model ----
(***************************************************************************)
(* Model of simple-crl-server (main.go): the CRL cache manager getCRL with *)
(* its sync.RWMutex discipline, the credential and registry loaders, the   *)
(* best-effort persistence, and the HTTP handler in front of it.           *)
(*                                                                         *)
(* Time is counted in ticks, TicksPerSecond ticks to the second, so that   *)
(* time.Time.Unix() (truncation to whole seconds) loses what it loses in   *)
(* the program.  Pointers and slices that may be nil are modelled as       *)
(* sequences of length 0 (nil) or 1 (the value).                           *)
(***************************************************************************)
EXTENDS Integers, Sequences, FiniteSets, TLC

\* ------------------------------------------------------------------ bounds
NumProcs == 2            \* concurrent requests (goroutines running handleCRL)
TicksPerSecond == 2      \* clock resolution modelled below the second
MaxEvents == 3           \* events of the environment in one behaviour: clock
                         \* advances, file replacements, failing disk writes

\* --------------------------------------------------------------- constants
CacheSeconds == 3600     \* cacheDuration = 1 * time.Hour, in seconds
ZeroTime == 0            \* the zero time.Time of a fresh CRLServer
MaxScanTokenSize == 65536  \* bufio.MaxScanTokenSize, the limit of bufio.NewScanner

cacheDuration == CacheSeconds * TicksPerSecond
StartNow == 2 * cacheDuration      \* the clock reading at process start

Procs == 1 .. NumProcs
Nil == << >>
Ptr(x) == << x >>
Deref(p) == p[1]

\* time.Time.Unix(): whole seconds of a clock reading
Unix(t) == t \div TicksPerSecond

VARIABLES
    now,          \* the clock (ticks)
    events,       \* events of the environment so far
    crtKey,       \* tls/tls.crt + tls/tls.key as they stand on disk
    listFile,     \* conf/list.txt as it stands on disk
    derFiles,     \* temp/crl-<n>.der : <n> -> payload
    metaFiles,    \* temp/crl-<n>.meta: <n> -> content
    readers,      \* s.mu: goroutines holding the shared lock
    writer,       \* s.mu: goroutine holding the exclusive lock (Nil or Ptr(p))
    cachedCRL,    \* s.cachedCRL  (Nil or Ptr(bytes))
    cacheTime,    \* s.cacheTime
    cacheNumber,  \* s.cacheNumber (Nil or Ptr(n))
    url,          \* per request: the path of its URL
    pc,           \* per request: position in handleCRL/getCRL
    loc,          \* per request: locals of getCRL
    ret,          \* per request: what getCRL returned
    resp,         \* per request: what handleCRL answered
    hist,         \* per request: what the request did so far (observer)
    touched,      \* per request: whether a step of it changed cache or store
    gens,         \* numbers of the successful regenerations, in order (observer)
    changedAt,    \* clock reading at the last replacement of tls.crt, tls.key
                  \* or conf/list.txt (observer)
    boot,         \* what the start of this process did (observer): loads, the
                  \* calls of loadCertAndKey by main; scanned, whether
                  \* os.ReadDir succeeded; selected, Nil or Ptr(<n>) for the
                  \* latestFile crl-<n>.der of loadCachedCRL; restored, Nil
                  \* or Ptr(<n>) for the file it loaded
    phase         \* the process: "start" (main.go 48-58), "recover" (about to
                  \* call loadCachedCRL), "serving" or "fatal" (log.Fatalf)

vars == << now, events, crtKey, listFile, derFiles, metaFiles, readers, writer,
           cachedCRL, cacheTime, cacheNumber, pc, loc, ret, resp, hist,
           touched, gens, changedAt, boot, phase, url >>

bootVars  == << phase, boot >>

envVars   == << crtKey, listFile >>
diskVars  == << derFiles, metaFiles >>
cacheVars == << cachedCRL, cacheTime, cacheNumber >>
lockVars  == << readers, writer >>
clockVars == << now >>
\* ------------------------------------------------------- credential loader
\* The credential files as they stand on disk.  crt: "missing" (os.ReadFile
\* fails), "notpem" (pem.Decode gives no block), "badder" (ParseCertificate
\* fails) or "cert"; key: "missing", "notpem", "pkcs8", "pkcs1", "ec",
\* "unparsable" (no encoding parses) or "notsigner" (parses, no crypto.Signer).
\* id names the CA; crlSign is whether the certificate may sign CRLs.
CredOK   == [crt |-> "cert",    key |-> "pkcs8",  id |-> "caA", crlSign |-> TRUE]
CredNew  == [crt |-> "cert",    key |-> "ec",     id |-> "caB", crlSign |-> TRUE]
CredLeaf == [crt |-> "cert",    key |-> "pkcs1",  id |-> "caC", crlSign |-> FALSE]
CredGone == [crt |-> "missing", key |-> "pkcs8",  id |-> "caA", crlSign |-> TRUE]
CredFiles == {CredOK, CredNew, CredLeaf, CredGone}

\* loadCertAndKey(crtFile, keyFile): [err, caCert, signer]
loadCertAndKey(c) ==
    IF c.crt = "missing" THEN [err |-> "reading cert file", caCert |-> Nil, signer |-> Nil]
    ELSE IF c.crt = "notpem" THEN [err |-> "failed to parse certificate PEM", caCert |-> Nil, signer |-> Nil]
    ELSE IF c.crt = "badder" THEN [err |-> "parsing certificate", caCert |-> Nil, signer |-> Nil]
    ELSE IF c.key = "missing" THEN [err |-> "reading key file", caCert |-> Nil, signer |-> Nil]
    ELSE IF c.key = "notpem" THEN [err |-> "failed to parse key PEM", caCert |-> Nil, signer |-> Nil]
    ELSE IF c.key \notin {"pkcs8", "pkcs1", "ec", "notsigner"}
         THEN [err |-> "parsing key", caCert |-> Nil, signer |-> Nil]
    ELSE IF c.key = "notsigner"
         THEN [err |-> "key does not implement crypto.Signer", caCert |-> Nil, signer |-> Nil]
    ELSE [err |-> "", caCert |-> Ptr([id |-> c.id, crlSign |-> c.crlSign]), signer |-> Ptr(c.id)]

\* --------------------------------------------------------- registry loader
\* A line is a sequence of one-character strings.
Tail2(s) == Tail(s)
Front(s) == SubSeq(s, 1, Len(s) - 1)

\* the white space strings.TrimSpace removes
IsSpace(c) == c \in {" ", "\t", "\n", "\r"}

RECURSIVE TrimLeft(_)
TrimLeft(s) == IF s # << >> /\ IsSpace(s[1]) THEN TrimLeft(Tail2(s)) ELSE s
RECURSIVE TrimRight(_)
TrimRight(s) == IF s # << >> /\ IsSpace(s[Len(s)]) THEN TrimRight(Front(s)) ELSE s
\* strings.TrimSpace
TrimSpace(s) == TrimRight(TrimLeft(s))

\* strings.HasPrefix(s, "#")
HasPrefixHash(s) == s # << >> /\ s[1] = "#"

\* strings.Split(s, ":")
RECURSIVE SplitFrom(_, _)
SplitFrom(s, cur) ==
    IF s = << >> THEN << cur >>
    ELSE IF s[1] = ":" THEN << cur >> \o SplitFrom(Tail2(s), << >>)
    ELSE SplitFrom(Tail2(s), Append(cur, s[1]))
Split(s) == SplitFrom(s, << >>)

\* value of a digit character, -1 when it is none
DigitVal(c) ==
    CASE c = "0" -> 0 [] c = "1" -> 1 [] c = "2" -> 2 [] c = "3" -> 3
      [] c = "4" -> 4 [] c = "5" -> 5 [] c = "6" -> 6 [] c = "7" -> 7
      [] c = "8" -> 8 [] c = "9" -> 9
      [] c \in {"a", "A"} -> 10 [] c \in {"b", "B"} -> 11
      [] c \in {"c", "C"} -> 12 [] c \in {"d", "D"} -> 13
      [] c \in {"e", "E"} -> 14 [] c \in {"f", "F"} -> 15
      [] OTHER -> -1

IsDigits(s, base) ==
    /\ s # << >>
    /\ \A i \in 1 .. Len(s) : DigitVal(s[i]) >= 0 /\ DigitVal(s[i]) < base

RECURSIVE DigitsVal(_, _, _)
DigitsVal(s, base, acc) ==
    IF s = << >> THEN acc
    ELSE DigitsVal(Tail2(s), base, acc * base + DigitVal(s[1]))

\* An optionally signed number in the given base: [ok, val].  This is
\* (*big.Int).SetString(s, 16) for base 16 and strconv.ParseInt(s, 10, 64) /
\* strconv.Atoi(s) for base 10 (a leading "+" or "-" is accepted by all three).
ParseNum(s, base) ==
    LET signed == s # << >> /\ s[1] \in {"+", "-"}
        body   == IF signed THEN Tail2(s) ELSE s
        mag    == DigitsVal(body, base, 0)
    IN  IF IsDigits(body, base)
        THEN [ok |-> TRUE, val |-> IF signed /\ s[1] = "-" THEN 0 - mag ELSE mag]
        ELSE [ok |-> FALSE, val |-> 0]

\* One pass of the scanner loop (main.go 187-228) over one line:
\* [entry: Nil or Ptr(RevokedCert), warn: whether a warning is logged]
parseLine(raw) ==
    LET line  == TrimSpace(raw)
        parts == Split(line)
    IN  IF line = << >> \/ HasPrefixHash(line) THEN [entry |-> Nil, warn |-> FALSE]
        ELSE IF Len(parts) # 3 THEN [entry |-> Nil, warn |-> TRUE]
        ELSE LET serial == ParseNum(parts[1], 16)
                 epoch  == ParseNum(parts[2], 10)
                 reason == ParseNum(parts[3], 10)
             IN  IF ~serial.ok \/ ~epoch.ok \/ ~reason.ok
                 THEN [entry |-> Nil, warn |-> TRUE]
                 ELSE [entry |-> Ptr([SerialNumber   |-> serial.val,
                                      RevocationTime |-> epoch.val,
                                      Reason         |-> reason.val]),
                       warn |-> FALSE]

\* bufio.NewScanner (main.go 183) keeps the default buffer: scanner.Scan()
\* ends with bufio.ErrTooLong at a line of MaxScanTokenSize bytes or more.
\* LongRun stands in a line for MaxScanTokenSize zeros in a row.
LongRun == "0*65536"
ByteCount(c) == IF c = LongRun THEN MaxScanTokenSize ELSE 1
RECURSIVE LineLen(_)
LineLen(l) == IF l = << >> THEN 0 ELSE ByteCount(Head(l)) + LineLen(Tail(l))
TooLong(l) == LineLen(l) >= MaxScanTokenSize

\* the loop for scanner.Scan() (main.go 186-229) and scanner.Err():
\* [entries, warnings, err: whether the scanner ended with an error]
RECURSIVE scanLoop(_, _, _)
scanLoop(lines, entries, warnings) ==
    IF lines = << >> THEN [entries |-> entries, warnings |-> warnings, err |-> FALSE]
    ELSE IF TooLong(Head(lines))
         THEN [entries |-> entries, warnings |-> warnings, err |-> TRUE]
    ELSE LET h == parseLine(Head(lines))
         IN  scanLoop(Tail(lines), entries \o h.entry,
                      warnings + (IF h.warn THEN 1 ELSE 0))
scanLines(lines) == scanLoop(lines, << >>, 0)

\* conf/list.txt as it stands: state "missing" (os.Open fails with
\* IsNotExist), "openerr" (os.Open fails otherwise), "readerr" (the scanner
\* ends with an error) or "ok"; lines are the lines the scanner yields.
LineBadHex  == << "B", "A", "D", "H", "E", "X", ":", "1", "0", "0", ":", "1" >>
LineBlank   == << >>
LineComment == << "#", " ", "c" >>
LineGood    == << "1", "A", "2", "B", ":", "1", "7", "0", ":", "1" >>
LineGood2   == << " ", "f", "f", ":", "9", ":", "4", " " >>
ListMissing == [state |-> "missing", lines |-> << >>]
ListReadErr == [state |-> "readerr", lines |-> << LineGood >>]
ListOne     == [state |-> "ok", lines |-> << LineBadHex, LineBlank, LineComment, LineGood >>]
ListTwo     == [state |-> "ok", lines |-> << LineGood, LineGood2 >>]
ListOpenErr == [state |-> "openerr", lines |-> << LineGood >>]
ListFiles   == {ListMissing, ListReadErr, ListOne, ListTwo}

\* every registry file of up to MaxLines lines of the kinds that matter to
\* the loader
MaxLines == 2            \* lines of conf/list.txt
LineTwoFields  == << "1", "A", ":", "5" >>
LineFourFields == << "1", ":", "2", ":", "3", ":", "4" >>
LineBadEpoch   == << "f", "f", ":", "x", ":", "1" >>
LineBadReason  == << "f", "f", ":", "9", ":" >>
LineSigned     == << "-", "1", "A", ":", "+", "5", ":", "-", "1" >>
LineSpaced     == << "1", "A", " ", ":", "5", ":", "1" >>
LineLong       == << LongRun >>
LinePool == {LineBadHex, LineBlank, LineComment, LineGood, LineGood2,
             LineTwoFields, LineFourFields, LineBadEpoch, LineBadReason,
             LineSigned, LineSpaced, LineLong}
RECURSIVE SeqsUpTo(_, _)
SeqsUpTo(S, n) ==
    IF n = 0 THEN {<< >>}
    ELSE SeqsUpTo(S, n - 1) \cup
         {Append(q, x) : q \in {r \in SeqsUpTo(S, n - 1) : Len(r) = n - 1}, x \in S}
ShortFiles == {[state |-> "ok", lines |-> l] : l \in SeqsUpTo(LinePool, MaxLines)}
RegistryFiles == ListFiles \cup {ListOpenErr} \cup ShortFiles

\* (s *CRLServer) loadRevokedCertificates(): [err, revokedCerts, warnings]
\* mutant: every failure of os.Open is returned, os.IsNotExist included
loadRevokedCertificatesStrict(f) ==
    IF f.state \in {"missing", "openerr"}
    THEN [err |-> "opening file", revokedCerts |-> << >>, warnings |-> 0]
    ELSE LET r == scanLines(f.lines)
         IN  IF f.state = "readerr" \/ r.err
             THEN [err |-> "reading file", revokedCerts |-> << >>, warnings |-> r.warnings]
             ELSE [err |-> "", revokedCerts |-> r.entries, warnings |-> r.warnings]

loadRevokedCertificates(f) ==
    IF f.state = "missing" THEN [err |-> "", revokedCerts |-> << >>, warnings |-> 0]
    ELSE IF f.state = "openerr"
         THEN [err |-> "opening file", revokedCerts |-> << >>, warnings |-> 0]
    ELSE LET r == scanLines(f.lines)
         IN  IF f.state = "readerr" \/ r.err
             THEN [err |-> "reading file", revokedCerts |-> << >>, warnings |-> r.warnings]
             ELSE [err |-> "", revokedCerts |-> r.entries, warnings |-> r.warnings]

\* ------------------------------------------------------- encoding primitive
\* x509.CreateRevocationList(rand.Reader, template, caCert, caPrivKey): the
\* signed list carries the template's fields and the issuer; it fails when the
\* issuer certificate may not sign CRLs.  [err, crlBytes]
CreateRevocationList(template, caCert, caPrivKey) ==
    IF ~Deref(caCert).crlSign THEN [err |-> "creating CRL", crlBytes |-> Nil]
    ELSE [err |-> "",
          crlBytes |-> Ptr([Number     |-> template.Number,
                            ThisUpdate |-> template.ThisUpdate,
                            NextUpdate |-> template.NextUpdate,
                            Entries    |-> template.RevokedCertificateEntries,
                            Issuer     |-> Deref(caCert).id,
                            SignedBy   |-> Deref(caPrivKey)])]
\* ------------------------------------------------------------- persistence
\* fmt.Sprintf("%d", n) / (*big.Int).String(): the decimal digits of n
DigitChar(d) ==
    CASE d = 0 -> "0" [] d = 1 -> "1" [] d = 2 -> "2" [] d = 3 -> "3"
      [] d = 4 -> "4" [] d = 5 -> "5" [] d = 6 -> "6" [] d = 7 -> "7"
      [] d = 8 -> "8" [] OTHER -> "9"
RECURSIVE FormatNat(_)
FormatNat(n) == IF n < 10 THEN << DigitChar(n) >>
                ELSE Append(FormatNat(n \div 10), DigitChar(n % 10))
FormatInt(n) == IF n < 0 THEN << "-" >> \o FormatNat(0 - n) ELSE FormatNat(n)

\* mutant: the timestamp is written in the clock's unit, not in seconds
metaContentRaw(t) == Append(FormatInt(t), "\n")

\* metaContent := fmt.Sprintf("%d\n", s.cacheTime.Unix())
metaContent(t) == Append(FormatInt(Unix(t)), "\n")

\* What os.WriteFile(name, data, 0644) can leave behind: the data ("ok"),
\* nothing new when the open fails ("openfail"), or a truncated file holding
\* a proper prefix of the data when the write fails ("partial").
WriteOutcomes == {"ok", "openfail", "partial"}
\* payloads are opaque: a truncated payload is the marker Torn(bytes)
Torn(bytes) == [torn |-> bytes]
\* observer: the list a payload is, or is the beginning of
Whole(b) == IF DOMAIN b = {"torn"} THEN b.torn ELSE b

\* ------------------------------------------------------------- the manager
LocZero == [caCert |-> Nil, caPrivKey |-> Nil, revokedCerts |-> << >>,
            now |-> ZeroTime, crlNumber |-> Nil, crlBytes |-> Nil]
RetZero == [crl |-> Nil, err |-> ""]
RespZero == [status |-> 0, body |-> Nil]
\* What the observer notes of a request: path ("cached1": served under the
\* shared lock, "cached2": served after the re-test, "generated", "error");
\* valid1/fresh2: whether the cache was Valid by the observer's reading at
\* the first test / the re-test; saw2: the number resident at the re-test;
\* cohort: for a request that starts a regeneration, itself and the requests
\* then waiting for the exclusive lock; the calls it made and locks it took;
\* cred/list: the credential files and the registry file as they stood when
\* the request's loaders read them.
HistZero == [path |-> "", valid1 |-> FALSE, fresh2 |-> FALSE, saw2 |-> Nil,
             cohort |-> {}, loads |-> 0, lists |-> 0, encodes |-> 0,
             writes |-> 0, locks |-> {}, saveErr |-> FALSE,
             cred |-> Nil, list |-> Nil]

\* handleCRL, main.go 86-96, after getCRL has returned r: 500 without a body
\* on error, else 200 with the list
Response(r) ==
    IF r.err # "" THEN [status |-> 500, body |-> Nil]
    ELSE [status |-> 200, body |-> r.crl]

\* mutant: the comparison of the freshness test inverted
CacheValidInverted == cachedCRL # Nil /\ (now - cacheTime) > cacheDuration

\* mutant: the freshness window taken inclusively
CacheValidInclusive == cachedCRL # Nil /\ (now - cacheTime) <= cacheDuration

\* s.cachedCRL != nil && time.Since(s.cacheTime) < cacheDuration
CacheValid == cachedCRL # Nil /\ (now - cacheTime) < cacheDuration

\* observer: the resident list, if any, was generated less than the cache
\* duration ago (by the generation timestamp it carries)
FreshNow == cachedCRL # Nil /\ now - Whole(Deref(cachedCRL)).ThisUpdate < cacheDuration

\* observer: the number the resident list carries
ResidentNumber == IF cachedCRL = Nil THEN Nil ELSE Ptr(Whole(Deref(cachedCRL)).Number)

BootZero == [loads |-> 0, scanned |-> FALSE, selected |-> Nil, restored |-> Nil]

\* http.HandleFunc("/", server.handleCRL) (main.go 76) on the default mux,
\* the only registration: the pattern "/" matches every path
Handler(path) == "handleCRL"

\* The process in phase ph over the store (ders, metas), the registry list
\* and the credential cred, the environment having made spent events, the
\* requests to come asking for paths: a CRLServer as main.go 66-70
\* constructs it (zero mutex, empty cache), no request yet
StartedAs(ph, ders, metas, list, spent, cred, paths) ==
    /\ now = StartNow /\ events = spent
    /\ crtKey = cred
    /\ listFile = list
    /\ url = paths
    /\ derFiles = ders /\ metaFiles = metas
    /\ readers = {} /\ writer = Nil
    /\ cachedCRL = Nil /\ cacheTime = ZeroTime /\ cacheNumber = Nil
    /\ pc = [p \in Procs |-> "idle"]
    /\ loc = [p \in Procs |-> LocZero]
    /\ ret = [p \in Procs |-> RetZero]
    /\ resp = [p \in Procs |-> RespZero]
    /\ hist = [p \in Procs |-> HistZero]
    /\ touched = [p \in Procs |-> FALSE]
    /\ gens = << >>
    /\ changedAt = ZeroTime
    /\ boot = IF ph = "start" THEN BootZero
              ELSE [loads |-> 1, scanned |-> TRUE, selected |-> Nil, restored |-> Nil]
    /\ phase = ph

StartedWith(ph, ders, metas, list, spent) ==
    StartedAs(ph, ders, metas, list, spent, CredOK, [p \in Procs |-> "/"])
Started(ph, ders, metas) == StartedWith(ph, ders, metas, ListOne, 0)

\* the server listening after a first start over an empty temp/ directory
Init == Started("serving", << >>, << >>)

\* observer: touched[p] records whether a step of request p changed the
\* in-memory cache or the durable store
Touch(p) ==
    touched' = [touched EXCEPT ![p] =
                  @ \/ cacheVars' # cacheVars \/ diskVars' # diskVars]

\* mutant: the cache is read without waiting for the writer
RLockNoWait(p) ==
    /\ phase = "serving"
    /\ pc[p] = "idle"
    /\ Handler(url[p]) = "handleCRL"
    /\ \A q \in Procs : q < p => pc[q] # "idle"
    /\ readers' = readers \cup {p}
    /\ pc' = [pc EXCEPT ![p] = "check1"]
    /\ hist' = [hist EXCEPT ![p].locks = @ \cup {"R"}]
    /\ UNCHANGED << events, resp, clockVars, bootVars, url, changedAt, envVars, diskVars, writer, cacheVars, loc, ret, gens >>
    /\ Touch(p)

\* s.mu.RLock() (main.go 100): a request arrives and takes the shared lock,
\* which waits while a writer holds s.mu (requests are numbered in their
\* order of arrival)
RLock(p) ==
    /\ phase = "serving"
    /\ pc[p] = "idle"
    /\ Handler(url[p]) = "handleCRL"
    /\ \A q \in Procs : q < p => pc[q] # "idle"
    /\ writer = Nil
    /\ readers' = readers \cup {p}
    /\ pc' = [pc EXCEPT ![p] = "check1"]
    /\ hist' = [hist EXCEPT ![p].locks = @ \cup {"R"}]
    /\ UNCHANGED << events, resp, clockVars, bootVars, url, changedAt, envVars, diskVars, writer, cacheVars, loc, ret, gens >>
    /\ Touch(p)

\* mutant: no fast path, every request goes on to the exclusive lock
Check1NoFastPath(p) ==
    /\ pc[p] = "check1"
    /\ readers' = readers \ {p}
    /\ pc' = [pc EXCEPT ![p] = "lock"]
    /\ hist' = [hist EXCEPT ![p].valid1 = FreshNow]
    /\ UNCHANGED << events, ret, resp, clockVars, bootVars, url, changedAt, envVars, diskVars, writer, cacheVars, loc, gens >>
    /\ Touch(p)

\* main.go 102-106: the freshness test under the shared lock.  A Valid cache
\* is returned (the deferred RUnlock runs after the result is read) and
\* handleCRL answers with it; otherwise the shared lock is released
Check1(p) ==
    /\ pc[p] = "check1"
    /\ readers' = readers \ {p}
    /\ IF CacheValid
       THEN /\ ret' = [ret EXCEPT ![p] = [crl |-> cachedCRL, err |-> ""]]
            /\ resp' = [resp EXCEPT ![p] = Response(ret'[p])]
            /\ pc' = [pc EXCEPT ![p] = "done"]
            /\ hist' = [hist EXCEPT ![p].path = "cached1", ![p].valid1 = FreshNow]
       ELSE /\ pc' = [pc EXCEPT ![p] = "lock"]
            /\ hist' = [hist EXCEPT ![p].valid1 = FreshNow]
            /\ UNCHANGED << ret, resp >>
    /\ UNCHANGED << events, clockVars, bootVars, url, changedAt, envVars, diskVars, writer, cacheVars, loc, gens >>
    /\ Touch(p)

\* mutant: the exclusive lock does not exclude another writer
LockNoWriterCheck(p) ==
    /\ pc[p] = "lock"
    /\ readers = {}
    /\ writer' = Ptr(p)
    /\ pc' = [pc EXCEPT ![p] = "check2"]
    /\ hist' = [hist EXCEPT ![p].locks = @ \cup {"W"}]
    /\ UNCHANGED << events, resp, clockVars, bootVars, url, changedAt, envVars, diskVars, readers, cacheVars, loc, ret, gens >>
    /\ Touch(p)

\* s.mu.Lock() (main.go 109): blocks while any reader or writer holds s.mu
Lock(p) ==
    /\ pc[p] = "lock"
    /\ writer = Nil /\ readers = {}
    /\ writer' = Ptr(p)
    /\ pc' = [pc EXCEPT ![p] = "check2"]
    /\ hist' = [hist EXCEPT ![p].locks = @ \cup {"W"}]
    /\ UNCHANGED << events, resp, clockVars, bootVars, url, changedAt, envVars, diskVars, readers, cacheVars, loc, ret, gens >>
    /\ Touch(p)

\* mutant: no re-test under the exclusive lock
Check2NoRecheck(p) ==
    /\ pc[p] = "check2"
    /\ hist' = [hist EXCEPT ![p].fresh2 = FreshNow,
                            ![p].saw2 = ResidentNumber,
                            ![p].cohort = IF CacheValid THEN @
                                          ELSE {q \in Procs : q = p \/ pc[q] = "lock"}]
    /\ pc' = [pc EXCEPT ![p] = "loadCert"]
    /\ UNCHANGED << events, ret, resp, clockVars, bootVars, url, changedAt, envVars, diskVars, lockVars, cacheVars, loc, gens >>
    /\ Touch(p)

\* main.go 113-115: the re-test under the exclusive lock
\* mutant: a request that follows a failed regeneration is handed that failure
Check2SharesFailure(p) ==
    /\ pc[p] = "check2"
    /\ IF \E r \in Procs : hist[r].path = "error"
       THEN /\ ret' = [ret EXCEPT ![p] = [crl |-> Nil, err |-> "loading certificate and key"]]
            /\ pc' = [pc EXCEPT ![p] = "unlock"]
            /\ hist' = [hist EXCEPT ![p].fresh2 = FreshNow, ![p].saw2 = ResidentNumber,
                                    ![p].path = "error"]
       ELSE /\ hist' = [hist EXCEPT ![p].fresh2 = FreshNow,
                                    ![p].saw2 = ResidentNumber,
                                    ![p].path = IF CacheValid THEN "cached2" ELSE @,
                                    ![p].cohort = IF CacheValid THEN @
                                                  ELSE {q \in Procs : q = p \/ pc[q] = "lock"}]
            /\ IF CacheValid
               THEN /\ ret' = [ret EXCEPT ![p] = [crl |-> cachedCRL, err |-> ""]]
                    /\ pc' = [pc EXCEPT ![p] = "unlock"]
               ELSE /\ pc' = [pc EXCEPT ![p] = "loadCert"]
                    /\ UNCHANGED ret
    /\ UNCHANGED << events, resp, clockVars, bootVars, url, changedAt, envVars, diskVars, lockVars, cacheVars, loc, gens >>
    /\ Touch(p)

Check2(p) ==
    /\ pc[p] = "check2"
    /\ hist' = [hist EXCEPT ![p].fresh2 = FreshNow,
                            ![p].saw2 = ResidentNumber,
                            ![p].path = IF CacheValid THEN "cached2" ELSE @,
                            ![p].cohort = IF CacheValid THEN @
                                          ELSE {q \in Procs : q = p \/ pc[q] = "lock"}]
    /\ IF CacheValid
       THEN /\ ret' = [ret EXCEPT ![p] = [crl |-> cachedCRL, err |-> ""]]
            /\ pc' = [pc EXCEPT ![p] = "unlock"]
       ELSE /\ pc' = [pc EXCEPT ![p] = "loadCert"]
            /\ UNCHANGED ret
    /\ UNCHANGED << events, resp, clockVars, bootVars, url, changedAt, envVars, diskVars, lockVars, cacheVars, loc, gens >>
    /\ Touch(p)

\* mutant: a failing credential load serves the resident list
LoadCertServesStale(p) ==
    /\ pc[p] = "loadCert"
    /\ LET r == loadCertAndKey(crtKey)
       IN  IF r.err # ""
           THEN /\ ret' = [ret EXCEPT ![p] =
                             IF cachedCRL # Nil THEN [crl |-> cachedCRL, err |-> ""]
                             ELSE [crl |-> Nil, err |-> "loading certificate and key"]]
                /\ pc' = [pc EXCEPT ![p] = "unlock"]
                /\ hist' = [hist EXCEPT ![p].loads = @ + 1, ![p].cred = Ptr(crtKey), ![p].path = "error"]
                /\ UNCHANGED loc
           ELSE /\ loc' = [loc EXCEPT ![p].caCert = r.caCert, ![p].caPrivKey = r.signer]
                /\ pc' = [pc EXCEPT ![p] = "loadList"]
                /\ hist' = [hist EXCEPT ![p].loads = @ + 1, ![p].cred = Ptr(crtKey)]
                /\ UNCHANGED ret
    /\ UNCHANGED << events, resp, clockVars, bootVars, url, changedAt, envVars, diskVars, lockVars, cacheVars, gens >>
    /\ Touch(p)

\* mutant: the credential validated at startup is kept and used again
LoadCertAtStartup(p) ==
    /\ pc[p] = "loadCert"
    /\ LET r == loadCertAndKey(CredOK)
       IN  /\ loc' = [loc EXCEPT ![p].caCert = r.caCert, ![p].caPrivKey = r.signer]
           /\ pc' = [pc EXCEPT ![p] = "loadList"]
           /\ hist' = [hist EXCEPT ![p].loads = @ + 1, ![p].cred = Ptr(crtKey)]
           /\ UNCHANGED ret
    /\ UNCHANGED << events, resp, clockVars, bootVars, url, changedAt, envVars, diskVars, lockVars, cacheVars, gens >>
    /\ Touch(p)

\* main.go 119-122
LoadCert(p) ==
    /\ pc[p] = "loadCert"
    /\ LET r == loadCertAndKey(crtKey)
       IN  IF r.err # ""
           THEN /\ ret' = [ret EXCEPT ![p] = [crl |-> Nil, err |-> "loading certificate and key"]]
                /\ pc' = [pc EXCEPT ![p] = "unlock"]
                /\ hist' = [hist EXCEPT ![p].loads = @ + 1, ![p].cred = Ptr(crtKey), ![p].path = "error"]
                /\ UNCHANGED loc
           ELSE /\ loc' = [loc EXCEPT ![p].caCert = r.caCert, ![p].caPrivKey = r.signer]
                /\ pc' = [pc EXCEPT ![p] = "loadList"]
                /\ hist' = [hist EXCEPT ![p].loads = @ + 1, ![p].cred = Ptr(crtKey)]
                /\ UNCHANGED ret
    /\ UNCHANGED << events, resp, clockVars, bootVars, url, changedAt, envVars, diskVars, lockVars, cacheVars, gens >>
    /\ Touch(p)

\* mutant: a failing registry load serves the resident list
LoadListServesStale(p) ==
    /\ pc[p] = "loadList"
    /\ LET r == loadRevokedCertificates(listFile)
       IN  IF r.err # ""
           THEN /\ ret' = [ret EXCEPT ![p] =
                             IF cachedCRL # Nil THEN [crl |-> cachedCRL, err |-> ""]
                             ELSE [crl |-> Nil, err |-> "loading revoked certificates"]]
                /\ pc' = [pc EXCEPT ![p] = "unlock"]
                /\ hist' = [hist EXCEPT ![p].lists = @ + 1, ![p].list = Ptr(listFile), ![p].path = "error"]
                /\ UNCHANGED loc
           ELSE /\ loc' = [loc EXCEPT ![p].revokedCerts = r.revokedCerts]
                /\ pc' = [pc EXCEPT ![p] = "create"]
                /\ hist' = [hist EXCEPT ![p].lists = @ + 1, ![p].list = Ptr(listFile)]
                /\ UNCHANGED ret
    /\ UNCHANGED << events, resp, clockVars, bootVars, url, changedAt, envVars, diskVars, lockVars, cacheVars, gens >>
    /\ Touch(p)

\* main.go 126-129
\* what loadRevokedCertificates returns over each registry file
loadedCerts == [f \in RegistryFiles |-> loadRevokedCertificates(f)]

LoadList(p) ==
    /\ pc[p] = "loadList"
    /\ LET r == loadedCerts[listFile]
       IN  IF r.err # ""
           THEN /\ ret' = [ret EXCEPT ![p] = [crl |-> Nil, err |-> "loading revoked certificates"]]
                /\ pc' = [pc EXCEPT ![p] = "unlock"]
                /\ hist' = [hist EXCEPT ![p].lists = @ + 1, ![p].list = Ptr(listFile), ![p].path = "error"]
                /\ UNCHANGED loc
           ELSE /\ loc' = [loc EXCEPT ![p].revokedCerts = r.revokedCerts]
                /\ pc' = [pc EXCEPT ![p] = "create"]
                /\ hist' = [hist EXCEPT ![p].lists = @ + 1, ![p].list = Ptr(listFile)]
                /\ UNCHANGED ret
    /\ UNCHANGED << events, resp, clockVars, bootVars, url, changedAt, envVars, diskVars, lockVars, cacheVars, gens >>
    /\ Touch(p)

\* mutant: s.cachedCRL is assigned before the error of the encoding is tested
CreateStoresFirst(p) ==
    /\ pc[p] = "create"
    /\ LET crlNumber == Unix(now)
           template  == [Number     |-> crlNumber,
                         ThisUpdate |-> now,
                         NextUpdate |-> now + cacheDuration,
                         RevokedCertificateEntries |-> loc[p].revokedCerts]
           r == CreateRevocationList(template, loc[p].caCert, loc[p].caPrivKey)
       IN  /\ cachedCRL' = r.crlBytes
           /\ IF r.err # ""
              THEN /\ ret' = [ret EXCEPT ![p] = [crl |-> Nil, err |-> "creating CRL"]]
                   /\ pc' = [pc EXCEPT ![p] = "unlock"]
                   /\ hist' = [hist EXCEPT ![p].encodes = @ + 1, ![p].path = "error"]
                   /\ UNCHANGED loc
              ELSE /\ loc' = [loc EXCEPT ![p].now = now, ![p].crlNumber = Ptr(crlNumber),
                                         ![p].crlBytes = r.crlBytes]
                   /\ pc' = [pc EXCEPT ![p] = "upd158"]
                   /\ hist' = [hist EXCEPT ![p].encodes = @ + 1]
                   /\ UNCHANGED ret
    /\ UNCHANGED << events, resp, clockVars, bootVars, url, changedAt, envVars, diskVars, lockVars, cacheTime,
                    cacheNumber, gens >>
    /\ Touch(p)

\* main.go 133-155: the generation timestamp, the number derived from it, the
\* template and the encoding
Create(p) ==
    /\ pc[p] = "create"
    /\ LET crlNumber == Unix(now)
           template  == [Number     |-> crlNumber,
                         ThisUpdate |-> now,
                         NextUpdate |-> now + cacheDuration,
                         RevokedCertificateEntries |-> loc[p].revokedCerts]
           r == CreateRevocationList(template, loc[p].caCert, loc[p].caPrivKey)
       IN  IF r.err # ""
           THEN /\ ret' = [ret EXCEPT ![p] = [crl |-> Nil, err |-> "creating CRL"]]
                /\ pc' = [pc EXCEPT ![p] = "unlock"]
                /\ hist' = [hist EXCEPT ![p].encodes = @ + 1, ![p].path = "error"]
                /\ UNCHANGED loc
           ELSE /\ loc' = [loc EXCEPT ![p].now = now, ![p].crlNumber = Ptr(crlNumber),
                                      ![p].crlBytes = r.crlBytes]
                /\ pc' = [pc EXCEPT ![p] = "upd158"]
                /\ hist' = [hist EXCEPT ![p].encodes = @ + 1]
                /\ UNCHANGED ret
    /\ UNCHANGED << events, resp, clockVars, bootVars, url, changedAt, envVars, diskVars, lockVars, cacheVars, gens >>
    /\ Touch(p)

\* main.go 158: s.cachedCRL = crlBytes
Upd158(p) ==
    /\ pc[p] = "upd158"
    /\ cachedCRL' = loc[p].crlBytes
    /\ pc' = [pc EXCEPT ![p] = "upd159"]
    /\ UNCHANGED << events, resp, clockVars, bootVars, url, changedAt, envVars, diskVars, lockVars, cacheTime, cacheNumber,
                    loc, ret, hist, gens >>
    /\ Touch(p)

\* main.go 159: s.cacheTime = now
Upd159(p) ==
    /\ pc[p] = "upd159"
    /\ cacheTime' = loc[p].now
    /\ pc' = [pc EXCEPT ![p] = "upd160"]
    /\ UNCHANGED << events, resp, clockVars, bootVars, url, changedAt, envVars, diskVars, lockVars, cachedCRL, cacheNumber,
                    loc, ret, hist, gens >>
    /\ Touch(p)

\* main.go 160: s.cacheNumber = crlNumber; the regeneration has succeeded
Upd160(p) ==
    /\ pc[p] = "upd160"
    /\ cacheNumber' = loc[p].crlNumber
    /\ gens' = Append(gens, Deref(loc[p].crlNumber))
    /\ pc' = [pc EXCEPT ![p] = "saveDer"]
    /\ hist' = [hist EXCEPT ![p].path = "generated"]
    /\ UNCHANGED << events, resp, clockVars, bootVars, url, changedAt, envVars, diskVars, lockVars, cachedCRL, cacheTime,
                    loc, ret >>
    /\ Touch(p)

\* a directory with file k holding v
Put(f, k, v) == [x \in DOMAIN f \cup {k} |-> IF x = k THEN v ELSE f[x]]

\* what a failed write can leave of a file content: nothing, its first
\* character, or all of it but the last character
Prefixes(content) == { SubSeq(content, 1, k) : k \in {0, 1, Len(content) - 1} }

\* saveCachedCRL, main.go 239-242: the payload file; a failure is returned to
\* getCRL, which logs it (main.go 163-165) and returns the new list
SaveDer(p) ==
    /\ pc[p] = "saveDer"
    /\ LET name == FormatInt(Deref(cacheNumber))
       IN  \E o \in WriteOutcomes :
             /\ o # "ok" => events < MaxEvents
             /\ events' = IF o = "ok" THEN events ELSE events + 1
             /\ derFiles' = CASE o = "ok"       -> Put(derFiles, name, Deref(cachedCRL))
                              [] o = "partial"  -> Put(derFiles, name, Torn(Deref(cachedCRL)))
                              [] o = "openfail" -> derFiles
             /\ IF o = "ok"
                THEN /\ pc' = [pc EXCEPT ![p] = "saveMeta"]
                     /\ hist' = [hist EXCEPT ![p].writes = @ + 1]
                     /\ UNCHANGED ret
                ELSE /\ pc' = [pc EXCEPT ![p] = "unlock"]
                     /\ hist' = [hist EXCEPT ![p].writes = @ + 1, ![p].saveErr = TRUE]
                     /\ ret' = [ret EXCEPT ![p] = [crl |-> loc[p].crlBytes, err |-> ""]]
    /\ UNCHANGED << resp, clockVars, bootVars, url, changedAt, envVars, metaFiles, lockVars, cacheVars, loc, gens >>
    /\ Touch(p)

\* mutant: a failing metadata write fails the request
SaveMetaFailsRequest(p) ==
    /\ pc[p] = "saveMeta"
    /\ LET name == FormatInt(Deref(cacheNumber))
           data == metaContent(cacheTime)
       IN  \E o \in WriteOutcomes :
             /\ o # "ok" => events < MaxEvents
             /\ events' = IF o = "ok" THEN events ELSE events + 1
             /\ \/ o = "ok"       /\ metaFiles' = Put(metaFiles, name, data)
                \/ o = "openfail" /\ metaFiles' = metaFiles
                \/ o = "partial"  /\ \E pre \in Prefixes(data) :
                                         metaFiles' = Put(metaFiles, name, pre)
             /\ hist' = [hist EXCEPT ![p].writes = @ + 1,
                                     ![p].saveErr = (o # "ok")]
             /\ ret' = [ret EXCEPT ![p] =
                          IF o = "ok" THEN [crl |-> loc[p].crlBytes, err |-> ""]
                          ELSE [crl |-> Nil, err |-> "saving CRL"]]
    /\ pc' = [pc EXCEPT ![p] = "unlock"]
    /\ UNCHANGED << resp, clockVars, bootVars, url, changedAt, envVars, derFiles, lockVars, cacheVars, loc, gens >>
    /\ Touch(p)

\* saveCachedCRL, main.go 245-251: the metadata file, then main.go 163-168
SaveMeta(p) ==
    /\ pc[p] = "saveMeta"
    /\ LET name == FormatInt(Deref(cacheNumber))
           data == metaContent(cacheTime)
       IN  \E o \in WriteOutcomes :
             /\ o # "ok" => events < MaxEvents
             /\ events' = IF o = "ok" THEN events ELSE events + 1
             /\ \/ o = "ok"       /\ metaFiles' = Put(metaFiles, name, data)
                \/ o = "openfail" /\ metaFiles' = metaFiles
                \/ o = "partial"  /\ \E pre \in Prefixes(data) :
                                         metaFiles' = Put(metaFiles, name, pre)
             /\ hist' = [hist EXCEPT ![p].writes = @ + 1,
                                     ![p].saveErr = (o # "ok")]
    /\ ret' = [ret EXCEPT ![p] = [crl |-> loc[p].crlBytes, err |-> ""]]
    /\ pc' = [pc EXCEPT ![p] = "unlock"]
    /\ UNCHANGED << resp, clockVars, bootVars, url, changedAt, envVars, derFiles, lockVars, cacheVars, loc, gens >>
    /\ Touch(p)

\* getCRL returns: the deferred s.mu.Unlock() (main.go 110) runs and
\* handleCRL (main.go 86-96) answers
\* mutant: getCRL returns without the deferred s.mu.Unlock()
ReturnLocked(p) ==
    /\ pc[p] = "unlock"
    /\ resp' = [resp EXCEPT ![p] = Response(ret[p])]
    /\ pc' = [pc EXCEPT ![p] = "done"]
    /\ loc' = [loc EXCEPT ![p] = LocZero]
    /\ UNCHANGED << events, clockVars, bootVars, url, changedAt, envVars, diskVars, lockVars, cacheVars, ret, hist, gens >>
    /\ Touch(p)

Return(p) ==
    /\ pc[p] = "unlock"
    /\ writer' = Nil
    /\ resp' = [resp EXCEPT ![p] = Response(ret[p])]
    /\ pc' = [pc EXCEPT ![p] = "done"]
    /\ loc' = [loc EXCEPT ![p] = LocZero]
    /\ UNCHANGED << events, clockVars, bootVars, url, changedAt, envVars, diskVars, readers, cacheVars, ret, hist, gens >>
    /\ Touch(p)

\* ----------------------------------------------------------------- startup
\* A file temp/crl-<n>.der is kept in derFiles under <n>, the part of its name
\* that loadCachedCRL cuts out (main.go 273-274), and temp/crl-<n>.meta in
\* metaFiles under <n>; entries of other names do not pass main.go 268-270.
\* A payload is a list, Torn(list), a directory of that name (IsDir) or a
\* file os.ReadFile fails on; a metadata content is a sequence of characters
\* or the mark of a file os.ReadFile fails on.
DirEntry == [dir |-> TRUE]
NoRead == [unreadable |-> TRUE]
NoReadMeta == << "EACCES" >>

ByteOf(c) ==
    CASE c = "+" -> 43 [] c = "-" -> 45 [] c = "." -> 46
      [] DigitVal(c) >= 0 /\ DigitVal(c) <= 9 -> 48 + DigitVal(c)
      [] c \in {"A", "B", "C", "D", "E", "F"} -> 55 + DigitVal(c)
      [] c \in {"a", "b", "c", "d", "e", "f"} -> 87 + DigitVal(c)
      [] OTHER -> 120
\* a < b as Go compares strings
RECURSIVE LexLess(_, _)
LexLess(a, b) ==
    IF a = << >> THEN b # << >>
    ELSE IF b = << >> THEN FALSE
    ELSE IF a[1] = b[1] THEN LexLess(Tail2(a), Tail2(b))
    ELSE ByteOf(a[1]) < ByteOf(b[1])
FileName(n) == << "c", "r", "l", "-" >> \o n \o << ".", "d", "e", "r" >>
\* os.ReadDir: the entries sorted by filename
RECURSIVE SortNames(_)
SortNames(S) ==
    IF S = {} THEN << >>
    ELSE LET m == CHOOSE x \in S :
                    \A y \in S \ {x} : LexLess(FileName(x), FileName(y))
         IN  << m >> \o SortNames(S \ {m})
ReadDir(ders) == SortNames(DOMAIN ders)

\* mutant: an entry is not compared with the latest number found so far
scanEntryNoCompare(numberStr, ders, metas, t, latest) ==
    LET number == ParseNum(numberStr, 10)
    IN  IF ders[numberStr] = DirEntry THEN latest
        ELSE IF ~number.ok THEN latest
        ELSE IF numberStr \notin DOMAIN metas THEN latest
        ELSE IF metas[numberStr] = NoReadMeta THEN latest
        ELSE LET timestamp == ParseNum(TrimSpace(metas[numberStr]), 10)
                 unixTime  == timestamp.val * TicksPerSecond
             IN  IF ~timestamp.ok THEN latest
                 ELSE IF t - unixTime < cacheDuration
                      THEN Ptr([number |-> number.val, time |-> unixTime,
                                file |-> numberStr])
                      ELSE latest

\* mutant: a metadata timestamp later than the clock is refused
scanEntryNotFuture(numberStr, ders, metas, t, latest) ==
    LET number == ParseNum(numberStr, 10)
    IN  IF ders[numberStr] = DirEntry THEN latest
        ELSE IF ~number.ok THEN latest
        ELSE IF latest # Nil /\ ~(number.val > Deref(latest).number) THEN latest
        ELSE IF numberStr \notin DOMAIN metas THEN latest
        ELSE IF metas[numberStr] = NoReadMeta THEN latest
        ELSE LET timestamp == ParseNum(TrimSpace(metas[numberStr]), 10)
                 unixTime  == timestamp.val * TicksPerSecond
             IN  IF ~timestamp.ok THEN latest
                 ELSE IF t - unixTime < cacheDuration /\ unixTime <= t
                      THEN Ptr([number |-> number.val, time |-> unixTime,
                                file |-> numberStr])
                      ELSE latest

\* One pass of the loop of loadCachedCRL (main.go 263-304) over the entry
\* named crl-<numberStr>.der; latest is Nil or Ptr([number, time, file]),
\* the latestNumber, latestTime and latestFile of the code
scanEntry(numberStr, ders, metas, t, latest) ==
    LET number == ParseNum(numberStr, 10)
    IN  IF ders[numberStr] = DirEntry THEN latest
        ELSE IF ~number.ok THEN latest
        ELSE IF latest # Nil /\ ~(number.val > Deref(latest).number) THEN latest
        ELSE IF numberStr \notin DOMAIN metas THEN latest
        ELSE IF metas[numberStr] = NoReadMeta THEN latest
        ELSE LET timestamp == ParseNum(TrimSpace(metas[numberStr]), 10)
                 \* cacheTime := time.Unix(timestamp, 0)
                 unixTime  == timestamp.val * TicksPerSecond
             IN  IF ~timestamp.ok THEN latest
                 ELSE IF t - unixTime < cacheDuration
                      THEN Ptr([number |-> number.val, time |-> unixTime,
                                file |-> numberStr])
                      ELSE latest

RECURSIVE scanDir(_, _, _, _, _)
scanDir(entries, ders, metas, t, latest) ==
    IF entries = << >> THEN latest
    ELSE scanDir(Tail(entries), ders, metas, t,
                 scanEntry(Head(entries), ders, metas, t, latest))

\* what loadCachedCRL leaves untouched: the cache of a fresh CRLServer
NoCache == [cachedCRL |-> Nil, cacheTime |-> ZeroTime, cacheNumber |-> Nil,
            latest |-> Nil, file |-> Nil]

\* (s *CRLServer) loadCachedCRL() at clock reading t, the entries scanned in
\* the given order: the cache it leaves, its latestFile and the file it
\* loaded
\* mutant: when the selected payload cannot be read, the next best pair is tried
loadCachedCRLFallBack(entries, ders, metas, t) ==
    LET first  == scanDir(entries, ders, metas, t, Nil)
        others == IF first = Nil THEN entries
                  ELSE SelectSeq(entries, LAMBDA e : e # Deref(first).file)
        latest == IF first # Nil /\ ders[Deref(first).file] = NoRead
                  THEN scanDir(others, ders, metas, t, Nil) ELSE first
    IN  IF latest = Nil THEN NoCache
        ELSE IF ders[Deref(latest).file] = NoRead
             THEN [NoCache EXCEPT !.latest = Ptr(Deref(latest).file)]
        ELSE [cachedCRL   |-> Ptr(ders[Deref(latest).file]),
              cacheTime   |-> Deref(latest).time,
              cacheNumber |-> Ptr(Deref(latest).number),
              latest      |-> Ptr(Deref(first).file),
              file        |-> Ptr(Deref(latest).file)]

loadCachedCRLIn(entries, ders, metas, t) ==
    LET latest == scanDir(entries, ders, metas, t, Nil)
    IN  IF latest = Nil THEN NoCache
        ELSE IF ders[Deref(latest).file] = NoRead
             THEN [NoCache EXCEPT !.latest = Ptr(Deref(latest).file)]
        ELSE [cachedCRL   |-> Ptr(ders[Deref(latest).file]),
              cacheTime   |-> Deref(latest).time,
              cacheNumber |-> Ptr(Deref(latest).number),
              latest      |-> Ptr(Deref(latest).file),
              file        |-> Ptr(Deref(latest).file)]
loadCachedCRL(ders, metas, t) == loadCachedCRLIn(ReadDir(ders), ders, metas, t)

\* mutant: the failure of the initial check is logged and startup goes on
ValidateAndGoOn ==
    /\ phase = "start"
    /\ phase' = "recover"
    /\ boot' = [boot EXCEPT !.loads = @ + 1]
    /\ UNCHANGED << url, events, clockVars, changedAt, envVars, diskVars, lockVars, cacheVars, pc, loc, ret, resp, hist, touched, gens >>

\* main.go 48-64: the initial check of certificate and key; log.Fatalf ends
\* the process (temp/ is taken to exist or to be creatable)
Validate ==
    /\ phase = "start"
    /\ phase' = IF loadCertAndKey(crtKey).err # "" THEN "fatal" ELSE "recover"
    /\ boot' = [boot EXCEPT !.loads = @ + 1]
    /\ UNCHANGED << url, events, clockVars, changedAt, envVars, diskVars, lockVars, cacheVars,
                    pc, loc, ret, resp, hist, touched, gens >>

\* mutant: nothing is loaded from the store
RecoverNothing ==
    /\ phase = "recover"
    /\ boot' = [boot EXCEPT !.scanned = TRUE]
    /\ phase' = "serving"
    /\ UNCHANGED << url, events, clockVars, changedAt, envVars, diskVars, lockVars,
                    cacheVars, pc, loc, ret, resp, hist, touched, gens >>

\* main.go 66-80: loadCachedCRL on the new server, then the handler and the
\* listener; os.ReadDir may fail, which leaves the cache empty
Recover ==
    /\ phase = "recover"
    /\ \E dirErr \in BOOLEAN :
         /\ dirErr => events < MaxEvents
         /\ events' = IF dirErr THEN events + 1 ELSE events
         /\ LET r == IF dirErr THEN NoCache
                     ELSE loadCachedCRL(derFiles, metaFiles, now)
            IN  /\ cachedCRL' = r.cachedCRL
                /\ cacheTime' = r.cacheTime
                /\ cacheNumber' = r.cacheNumber
                /\ boot' = [boot EXCEPT !.scanned = ~dirErr, !.selected = r.latest,
                                        !.restored = r.file]
    /\ phase' = "serving"
    /\ UNCHANGED << url, clockVars, changedAt, envVars, diskVars, lockVars, pc, loc, ret, resp,
                    hist, touched, gens >>

\* the process ends (a signal, a crash, or after log.Fatalf) and is started
\* again: the memory of the old process is gone, the files stay
Restart ==
    /\ events < MaxEvents
    /\ phase \in {"serving", "fatal"}
    /\ events' = events + 1
    /\ phase' = "start"
    /\ boot' = BootZero
    /\ readers' = {} /\ writer' = Nil
    /\ cachedCRL' = Nil /\ cacheTime' = ZeroTime /\ cacheNumber' = Nil
    /\ pc' = [p \in Procs |-> "idle"]
    /\ loc' = [p \in Procs |-> LocZero]
    /\ ret' = [p \in Procs |-> RetZero]
    /\ resp' = [p \in Procs |-> RespZero]
    /\ hist' = [p \in Procs |-> HistZero]
    /\ touched' = [p \in Procs |-> FALSE]
    /\ gens' = << >>
    /\ UNCHANGED << url, clockVars, changedAt, envVars, diskVars >>

\* ---------------------------------------------------------- the environment
\* the clock advances, by one tick or by one tick less than the cache
\* duration, between the arrival of the first request and the end of the last
TickSteps == {1, cacheDuration - 1}
Tick ==
    /\ events < MaxEvents
    /\ \E p \in Procs : pc[p] # "idle"
    /\ \E p \in Procs : pc[p] # "done"
    /\ \E d \in TickSteps : now' = now + d
    /\ events' = events + 1
    /\ UNCHANGED << bootVars, url, changedAt, envVars, diskVars, lockVars, cacheVars, pc, loc, ret,
                    resp, hist, touched, gens >>

\* the operator (or Kubernetes) replaces tls.crt / tls.key
SetCred ==
    /\ events < MaxEvents
    /\ \E c \in CredFiles \ {crtKey} : crtKey' = c
    /\ changedAt' = now
    /\ events' = events + 1
    /\ UNCHANGED << clockVars, bootVars, url, listFile, diskVars, lockVars, cacheVars, pc, loc,
                    ret, resp, hist, touched, gens >>

\* the operator replaces conf/list.txt
SetList ==
    /\ events < MaxEvents
    /\ \E f \in ListFiles \ {listFile} : listFile' = f
    /\ changedAt' = now
    /\ events' = events + 1
    /\ UNCHANGED << clockVars, bootVars, url, crtKey, diskVars, lockVars, cacheVars, pc, loc,
                    ret, resp, hist, touched, gens >>

\* the steps of the requests
Serve ==
    \/ \E p \in Procs : RLock(p)
    \/ \E p \in Procs : Check1(p)
    \/ \E p \in Procs : Lock(p)
    \/ \E p \in Procs : Check2(p)
    \/ \E p \in Procs : LoadCert(p)
    \/ \E p \in Procs : LoadList(p)
    \/ \E p \in Procs : Create(p)
    \/ \E p \in Procs : Upd158(p)
    \/ \E p \in Procs : Upd159(p)
    \/ \E p \in Procs : Upd160(p)
    \/ \E p \in Procs : SaveDer(p)
    \/ \E p \in Procs : SaveMeta(p)
    \/ \E p \in Procs : Return(p)

Next ==
    \/ Serve
    \/ Tick
    \/ SetCred
    \/ SetList

Spec == Init /\ [][Next]_vars

\* The steps of the goroutine serving request p.  The Go scheduler runs every
\* runnable goroutine, and sync.RWMutex hands a lock that stays free to a
\* goroutine waiting for it; the loaders, the encoder and the file writes
\* are taken to return.
Request(p) ==
    \/ RLock(p) \/ Check1(p) \/ Lock(p) \/ Check2(p) \/ LoadCert(p) \/ LoadList(p)
    \/ Create(p) \/ Upd158(p) \/ Upd159(p) \/ Upd160(p) \/ SaveDer(p) \/ SaveMeta(p)
    \/ Return(p)
FairSpec == Spec /\ \A p \in Procs : WF_vars(Request(p))

\* the process from its start, over the store a first start finds, with
\* restarts
InitBoot == Started("start", << >>, << >>)
NextBoot ==
    \/ Next
    \/ Validate
    \/ Recover
    \/ Restart
SpecBoot == InitBoot /\ [][NextBoot]_vars

\* ------------------------------------------- a start over any store of files
MaxStoreFiles == 2       \* pairs in temp/ when the process starts
NowSec == Unix(StartNow)
\* the list a process generated in second n
ListOf(n) == [Number |-> n, ThisUpdate |-> n * TicksPerSecond,
              NextUpdate |-> n * TicksPerSecond + cacheDuration,
              Entries |-> << >>, Issuer |-> CredOK.id, SignedBy |-> CredOK.id]
MetaOf(n) == Ptr(Append(FormatInt(n), "\n"))
\* files as temp/ can hold them: name is <n> of crl-<n>.der, der its payload,
\* meta Nil (no crl-<n>.meta) or Ptr(content)
PairFresh    == [name |-> FormatInt(NowSec), der |-> ListOf(NowSec),
                 meta |-> MetaOf(NowSec)]
PairOld      == [name |-> FormatInt(NowSec - CacheSeconds + 1),
                 der |-> ListOf(NowSec - CacheSeconds + 1),
                 meta |-> MetaOf(NowSec - CacheSeconds + 1)]
PairStale    == [name |-> FormatInt(NowSec + 1), der |-> ListOf(NowSec + 1),
                 meta |-> MetaOf(NowSec - CacheSeconds)]
PairNoMeta   == [name |-> FormatInt(NowSec + 2), der |-> ListOf(NowSec + 2),
                 meta |-> Nil]
PairMetaEACCES == [name |-> FormatInt(NowSec + 3), der |-> ListOf(NowSec + 3),
                 meta |-> Ptr(NoReadMeta)]
PairMetaBad  == [name |-> FormatInt(NowSec + 4), der |-> ListOf(NowSec + 4),
                 meta |-> Ptr(<< "7", "x", "\n" >>)]
PairNameBad  == [name |-> << "x", "9" >>, der |-> ListOf(NowSec),
                 meta |-> MetaOf(NowSec)]
PairTie      == [name |-> << "0" >> \o FormatInt(NowSec),
                 der |-> Torn(ListOf(NowSec)), meta |-> MetaOf(NowSec - 1)]
PairDir      == [name |-> FormatInt(NowSec + 5), der |-> DirEntry,
                 meta |-> MetaOf(NowSec)]
PairFuture   == [name |-> FormatInt(NowSec + 6), der |-> ListOf(NowSec + 6),
                 meta |-> MetaOf(NowSec + CacheSeconds)]
PairNoRead   == [name |-> FormatInt(NowSec + 7), der |-> NoRead,
                 meta |-> MetaOf(NowSec)]
PairLong     == [name |-> << "1" >> \o FormatInt(NowSec),
                 der |-> ListOf(NowSec - 2), meta |-> MetaOf(NowSec - 2)]
Pairs == {PairFresh, PairOld, PairStale, PairNoMeta, PairMetaEACCES, PairMetaBad,
          PairNameBad, PairTie, PairDir, PairFuture, PairNoRead, PairLong}
DersOf(S) == IF S = {} THEN << >>
             ELSE [k \in {c.name : c \in S} |-> (CHOOSE c \in S : c.name = k).der]
MetasOf(S) ==
    IF \A c \in S : c.meta = Nil THEN << >>
    ELSE [k \in {c.name : c \in {x \in S : x.meta # Nil}} |->
             Deref((CHOOSE c \in S : c.name = k).meta)]

InitStore ==
    \E S \in SUBSET Pairs :
        /\ Cardinality(S) <= MaxStoreFiles
        /\ Started("start", DersOf(S), MetasOf(S))
NextStore ==
    \/ Validate
    \/ Recover
    \/ Serve
SpecStore == InitStore /\ [][NextStore]_vars

\* ------------------------------- a start over any store, the clock running
NextAge ==
    \/ NextStore
    \/ Tick
SpecAge == InitStore /\ [][NextAge]_vars

\* ------------------------------------------ requests over any registry file
\* the registry is any file of up to MaxLines lines, or the four lines of
\* ListOne, or a file that is not there or cannot be opened or read; files
\* and clock stay as they are (the budget of events is spent)
InitList ==
    \E list \in ShortFiles \cup {ListOne, ListMissing, ListOpenErr, ListReadErr} :
        StartedWith("serving", << >>, << >>, list, MaxEvents)
NextList == Serve
SpecList == InitList /\ [][NextList]_vars

\* --------------------------------------------- requests for different paths
Paths == {"/", "/healthz"}
\* each request asks for one of Paths, over any credential and registry
\* (the budget of events is spent)
InitProbe ==
    \E paths \in [Procs -> Paths], cred \in CredFiles, list \in ListFiles :
        StartedAs("serving", << >>, << >>, list, MaxEvents, cred, paths)
NextProbe == Serve
SpecProbe == InitProbe /\ [][NextProbe]_vars
\* ================================================================== claims
RegenPcs == {"loadCert", "loadList", "create", "upd158", "upd159", "upd160",
             "saveDer", "saveMeta"}

\* the requests that started a regeneration, each with its cohort
Leaders == {p \in Procs : hist[p].cohort # {}}
Settled(L) == \A q \in hist[L].cohort : pc[q] = "done"
\* the regeneration of L succeeded and every other request of its cohort
\* found L's list resident and Valid at its re-test
LeaderServedAll(L) ==
    /\ hist[L].path = "generated"
    /\ \A q \in hist[L].cohort \ {L} :
          hist[q].fresh2 /\ hist[q].saw2 = Ptr(Deref(ret[L].crl).Number)
\* across the cohort of L the loader and the encoder ran once each and every
\* request was answered with a list of one and the same number
OnceForAll(L) ==
    /\ Cardinality({q \in hist[L].cohort : hist[q].loads > 0}) = 1
    /\ Cardinality({q \in hist[L].cohort : hist[q].encodes > 0}) = 1
    /\ \A q \in hist[L].cohort : hist[q].loads <= 1 /\ hist[q].encodes <= 1
    /\ \A q \in hist[L].cohort :
          /\ resp[q].status = 200
          /\ resp[L].status = 200
          /\ Deref(resp[q].body).Number = Deref(resp[L].body).Number

\* C1 as stated: for the requests waiting together while the cache is Stale,
\* the loader and the encoder are invoked exactly once and all requests
\* return the same number, whatever becomes of the regeneration.
C1_SingleFlightAlways ==
    \A L \in Leaders : Settled(L) => OnceForAll(L)

\* C1 (amended): when the request that wins the exclusive lock regenerates
\* successfully and its list is still resident and Valid at the re-test of
\* every request that waited with it, the loader and the encoder were invoked
\* exactly once across them and all of them return the same number.
C1_SingleFlight ==
    \A L \in Leaders : (Settled(L) /\ LeaderServedAll(L)) => OnceForAll(L)

C1_Witness ==
    \E L \in Leaders :
        Cardinality(hist[L].cohort) >= 2 /\ Settled(L) /\ LeaderServedAll(L)

\* C2: in every reachable state at most one request is between the start of
\* credential loading and the end of the persistence attempt.
C2_OneRegeneration ==
    Cardinality({p \in Procs : pc[p] \in RegenPcs}) <= 1

C2_Witness ==
    \E p, q \in Procs : pc[p] \in RegenPcs /\ pc[q] = "lock"

\* the in-memory triple belongs to one generation (or is the empty cache)
Coherent ==
    \/ cachedCRL = Nil /\ cacheTime = ZeroTime /\ cacheNumber = Nil
    \/ /\ cachedCRL # Nil /\ cacheNumber # Nil
       /\ Deref(cacheNumber) = Deref(cachedCRL).Number
       /\ cacheTime = Deref(cachedCRL).ThisUpdate

\* every request about to read the cache finds a coherent triple, and a
\* request regenerating (or re-testing, or returning from there) holds the
\* exclusive lock, which excludes every reader
C3_State ==
    /\ \A p \in Procs : pc[p] \in {"check1", "check2"} => Coherent
    /\ \A p \in Procs : pc[p] \in RegenPcs \cup {"check2", "unlock"} => writer = Ptr(p)
    /\ \A p \in Procs : pc[p] = "check1" <=> p \in readers
    /\ writer # Nil => readers = {}
\* the triple changes only under an exclusive lock that is held before and
\* after the step, with no reader
C3_Step ==
    cacheVars' # cacheVars => writer # Nil /\ writer' = writer /\ readers = {}

\* C3: no request observes a half-built artifact: the cache is replaced only
\* under the exclusive lock, held for the whole regeneration, and every read
\* of the cache sees bytes, timestamp and number of one generation.
C3_NoHalfBuilt == [] C3_State /\ [][C3_Step]_vars

\* a regeneration is half-way through its update of the triple while another
\* request waits for the lock
C3_Witness ==
    \E p, q \in Procs : pc[p] \in {"upd159", "upd160"} /\ pc[q] = "lock" /\ ~Coherent

\* C4: a list returned from the cache was generated less than one hour before
\* the freshness test that let it through; a request that goes on to
\* regenerate found no list, or one aged one hour or more.
C4_ServedFresh ==
    \A p \in Procs :
        /\ hist[p].path = "cached1" => hist[p].valid1 /\ ret[p].crl # Nil
        /\ hist[p].path = "cached2" => hist[p].fresh2 /\ ret[p].crl # Nil
        /\ (pc[p] \in RegenPcs \/ hist[p].loads > 0) => ~hist[p].valid1 /\ ~hist[p].fresh2

\* a request starts a regeneration on a resident list aged exactly one hour
C4_Witness ==
    \E p \in Procs :
        pc[p] = "loadCert" /\ cachedCRL # Nil /\ now - cacheTime = cacheDuration

\* C5: a request that finds the cache Valid at its first test returns the
\* resident list under the shared lock alone, calls no loader, no encoder and
\* no write, and changes neither the cache nor the store.
C5_ServeCachedNoWork ==
    \A p \in Procs :
        (pc[p] \notin {"idle", "check1"} /\ hist[p].valid1) =>
            /\ pc[p] = "done" /\ hist[p].path = "cached1"
            /\ ret[p].err = "" /\ ret[p].crl # Nil
            /\ resp[p] = [status |-> 200, body |-> ret[p].crl]
            /\ hist[p].loads = 0 /\ hist[p].lists = 0
            /\ hist[p].encodes = 0 /\ hist[p].writes = 0
            /\ hist[p].locks = {"R"}
            /\ ~touched[p]

C5_Witness ==
    \E p \in Procs : pc[p] = "done" /\ hist[p].path = "cached1" /\ metaFiles # << >>
\* C6: the numbers of the successful regenerations of one process lifetime
\* are strictly increasing, each being the Unix second of the generation
\* timestamp the list carries.
C6_NumbersIncrease ==
    /\ \A i, j \in 1 .. Len(gens) : i < j => gens[i] < gens[j]
    /\ \A p \in Procs :
          loc[p].crlBytes # Nil =>
              Deref(loc[p].crlBytes).Number = Unix(Deref(loc[p].crlBytes).ThisUpdate)

C6_Witness == Len(gens) >= 2

\* the regeneration of request p failed: in the credential load, the registry
\* load or the encoding
Aborted(p) == hist[p].path = "error"
CredFailed(p) == Aborted(p) /\ hist[p].loads = 1 /\ hist[p].lists = 0

\* C7: a request whose regeneration fails (credential load, registry load or
\* encoding) returns an error, none of its steps changed cachedCRL, cacheTime
\* or cacheNumber, and it wrote nothing to the durable store.
C7_AbortKeepsCache ==
    \A p \in Procs :
        /\ Aborted(p) => /\ ret[p].err # "" /\ ret[p].crl = Nil
                         /\ ~touched[p]
                         /\ hist[p].writes = 0
        /\ ret[p].err # "" => Aborted(p)

\* the encoding failed while an earlier list is resident and on disk
C7_Witness ==
    \E p \in Procs :
        /\ ret[p].err = "creating CRL" /\ pc[p] = "done"
        /\ cachedCRL # Nil /\ metaFiles # << >>

\* C8: a request whose regeneration failed is answered 500 without a body,
\* also when an expired list is still resident; getCRL returned an error and
\* no list.
C8_FailureReported ==
    \A p \in Procs :
        /\ Aborted(p) =>
              /\ ret[p].crl = Nil
              /\ ret[p].err \in {"loading certificate and key",
                                 "loading revoked certificates", "creating CRL"}
              /\ pc[p] = "done" => resp[p] = [status |-> 500, body |-> Nil]
        /\ resp[p].status = 200 =>
              /\ hist[p].path \in {"cached1", "cached2", "generated"}
              /\ resp[p].body # Nil

C8_Witness ==
    \E p \in Procs :
        /\ pc[p] = "done" /\ Aborted(p)
        /\ cachedCRL # Nil /\ ~FreshNow /\ hist[p].saw2 # Nil

C10_BestEffortPersist ==
    \A p \in Procs :
        hist[p].saveErr =>
            /\ hist[p].path = "generated"
            /\ ret[p].err = "" /\ ret[p].crl # Nil
            /\ pc[p] = "unlock" =>
                  /\ cachedCRL = ret[p].crl /\ Coherent
                  /\ Deref(cacheNumber) = gens[Len(gens)]
            /\ pc[p] = "done" => resp[p] = [status |-> 200, body |-> ret[p].crl]

\* the payload was written and the metadata write failed
C10_Witness ==
    \E p \in Procs :
        /\ hist[p].saveErr /\ pc[p] = "done" /\ hist[p].writes = 2
        /\ FormatInt(Deref(ret[p].crl).Number) \in DOMAIN derFiles
        /\ FormatInt(Deref(ret[p].crl).Number) \notin DOMAIN metaFiles

\* the list that request p generated, while it is at hand
Generated(p) == IF loc[p].crlBytes # Nil THEN loc[p].crlBytes
                ELSE IF hist[p].path = "generated" THEN ret[p].crl ELSE Nil

\* C11: every regeneration reads the credential and the registry from storage
\* once each, and the list it generates is issued and signed by the
\* credential as it stood at that read and carries the entries of the
\* registry as it stood at that read, whatever earlier regenerations read.
C11_InputsReadAfresh ==
    \A p \in Procs :
        Generated(p) # Nil =>
            /\ hist[p].loads = 1 /\ hist[p].lists = 1
            /\ Deref(Generated(p)).Issuer = Deref(hist[p].cred).id
            /\ Deref(Generated(p)).SignedBy = Deref(hist[p].cred).id
            /\ Deref(Generated(p)).Entries =
                   loadRevokedCertificates(Deref(hist[p].list)).revokedCerts

\* two regenerations of one process, the credential replaced between them:
\* the second list is signed by the new credential
C11_Witness ==
    \E p, q \in Procs :
        /\ pc[p] = "done" /\ hist[p].path = "generated"
        /\ pc[q] = "done" /\ hist[q].path = "generated"
        /\ Deref(ret[p].crl).SignedBy = CredOK.id
        /\ Deref(ret[q].crl).SignedBy = CredNew.id
        /\ Deref(ret[p].crl).Number < Deref(ret[q].crl).Number

\* the list b is what a regeneration builds from the credential and the
\* registry as they stand now
BuiltFromCurrent(b) ==
    /\ loadCertAndKey(crtKey).err = ""
    /\ loadRevokedCertificates(listFile).err = ""
    /\ Deref(b).Issuer = crtKey.id /\ Deref(b).SignedBy = crtKey.id
    /\ Deref(b).Entries = loadRevokedCertificates(listFile).revokedCerts

\* C12 as stated: when certificate, key or registry were last replaced at
\* time t, every list that a freshness test made at a time >= t +
\* cacheDuration lets through to a request was built from the inputs as they
\* stand since t.
C12_ChangeWithinCacheDuration ==
    [][\A p \in Procs :
          (pc[p] \in {"check1", "check2"} /\ ret'[p].crl # Nil
              /\ now >= changedAt + cacheDuration)
          => BuiltFromCurrent(ret'[p].crl)]_vars

\* ------------------------------------------------------- claims on recovery
NumberOf(k) == ParseNum(k, 10).val
MetaTime(k, metas) == ParseNum(TrimSpace(metas[k]), 10).val * TicksPerSecond
\* the pair crl-<k>.der / crl-<k>.meta qualifies at clock reading t: a file
\* whose number parses, whose metadata is readable and parses as an integer,
\* and whose metadata timestamp is within the freshness window
Qualifies(k, ders, metas, t) ==
    /\ ders[k] # DirEntry
    /\ ParseNum(k, 10).ok
    /\ k \in DOMAIN metas
    /\ metas[k] # NoReadMeta
    /\ ParseNum(TrimSpace(metas[k]), 10).ok
    /\ t - MetaTime(k, metas) < cacheDuration
Qualifying(ders, metas, t) == {k \in DOMAIN ders : Qualifies(k, ders, metas, t)}
\* the qualifying pairs of the greatest number
Newest(ders, metas, t) ==
    {k \in Qualifying(ders, metas, t) :
        \A j \in Qualifying(ders, metas, t) : NumberOf(j) <= NumberOf(k)}

\* no request has arrived since the process started: clock and store are as
\* the start found them
AllIdle == \A p \in Procs : pc[p] = "idle"
\* the restored list is the resident one: no regeneration since the start
RestoredResident ==
    /\ phase = "serving" /\ boot.restored # Nil /\ cachedCRL # Nil
    /\ \A q \in Procs : hist[q].encodes = 0

\* C13 as stated: over a store whose newest qualifying pair is readable, a
\* fresh process restores that pair's payload, and the credential loader has
\* not been invoked.
C13_RestoredWithoutLoader ==
    (phase \in {"serving", "fatal"} /\ AllIdle /\ (phase = "serving" => boot.scanned)) =>
        \A k \in Newest(derFiles, metaFiles, now) :
            (Newest(derFiles, metaFiles, now) = {k} /\ derFiles[k] # NoRead) =>
                cachedCRL = Ptr(derFiles[k]) /\ boot.loads = 0

C13_State ==
    /\ (phase = "serving" /\ AllIdle /\ boot.scanned) =>
          \A k \in Newest(derFiles, metaFiles, now) :
              (Newest(derFiles, metaFiles, now) = {k} /\ derFiles[k] # NoRead) =>
                  /\ boot.restored = Ptr(k)
                  /\ cachedCRL = Ptr(derFiles[k])
                  /\ cacheNumber = Ptr(NumberOf(k))
                  /\ cacheTime = MetaTime(k, metaFiles)
    /\ phase # "start" => boot.loads = 1
    /\ phase \in {"start", "recover", "fatal"} => cachedCRL = Nil /\ boot.restored = Nil
    /\ \A p \in Procs :
          (RestoredResident /\ hist[p].path \in {"cached1", "cached2"}) =>
              /\ ret[p].crl = Ptr(derFiles[Deref(boot.restored)])
              /\ hist[p].loads = 0 /\ hist[p].lists = 0 /\ hist[p].encodes = 0
C13_Step ==
    \A p \in Procs :
        (pc[p] = "check1" /\ pc'[p] \notin {"check1", "idle"} /\ RestoredResident
            /\ now - MetaTime(Deref(boot.restored), metaFiles) < cacheDuration) =>
            /\ pc'[p] = "done"
            /\ resp'[p] = [status |-> 200, body |-> Ptr(derFiles[Deref(boot.restored)])]

\* C13 (amended): a fresh process whose startup check of the credential
\* succeeds (one call of the credential loader, by main, its result dropped)
\* restores the newest qualifying readable pair of the store as the resident
\* list with the pair's number and metadata timestamp; a request whose first
\* test falls within the freshness window of that timestamp is answered 200
\* with that payload; recovery and the requests served from the restored list
\* invoke neither the credential loader nor the encoder.  A process whose
\* startup check fails restores nothing.
C13_RestartRecovery == [] C13_State /\ [][C13_Step]_vars

\* a restarted process has answered a request with the payload it restored
C13_Witness ==
    /\ RestoredResident
    /\ \E p \in Procs :
          /\ pc[p] = "done" /\ hist[p].path = "cached1"
          /\ resp[p].body = Ptr(derFiles[Deref(boot.restored)])

\* the orders in which the entries of a directory can be scanned
Orders(S) == {f \in [1 .. Cardinality(S) -> S] : \A i, j \in DOMAIN f : f[i] = f[j] => i = j}

\* C14: after a start whose scan of temp/ succeeded, the file selected is a
\* qualifying pair of the greatest number among the qualifying pairs (number
\* parses, metadata readable and an integer, metadata timestamp within the
\* freshness window now), whatever the other pairs are and in whatever order
\* the entries are scanned; its payload, number and metadata time become the
\* cache.  When no pair qualifies nothing is selected, the process serves
\* with an empty cache, and no request is answered from the cache before a
\* request has regenerated.
C14_RecoverySelection ==
    LET Q == Qualifying(derFiles, metaFiles, now)
        N == Newest(derFiles, metaFiles, now)
    IN  /\ (phase = "serving" /\ AllIdle /\ boot.scanned) =>
              /\ Q = {} => /\ boot.selected = Nil /\ boot.restored = Nil
                           /\ cachedCRL = Nil /\ cacheTime = ZeroTime /\ cacheNumber = Nil
              /\ Q # {} => /\ boot.selected # Nil /\ Deref(boot.selected) \in N
                           /\ derFiles[Deref(boot.selected)] # NoRead =>
                                 /\ cachedCRL = Ptr(derFiles[Deref(boot.selected)])
                                 /\ cacheNumber = Ptr(NumberOf(Deref(boot.selected)))
                                 /\ cacheTime = MetaTime(Deref(boot.selected), metaFiles)
              /\ \A o \in Orders(DOMAIN derFiles) :
                    LET r == loadCachedCRLIn(o, derFiles, metaFiles, now)
                    IN  /\ Q = {} => r = NoCache
                        /\ Q # {} => r.latest # Nil /\ Deref(r.latest) \in N
        /\ (phase = "serving" /\ boot.scanned /\ boot.selected = Nil) =>
              \A p \in Procs :
                  /\ hist[p].path \in {"cached1", "cached2"} => gens # << >>
                  /\ (gens = << >> /\ pc[p] = "done") => hist[p].loads = 1

\* a lower-numbered qualifying pair was restored although the pair of the
\* greatest number is in the store: it does not qualify
C14_Witness ==
    /\ phase = "serving" /\ AllIdle /\ boot.restored # Nil
    /\ \E k \in DOMAIN derFiles :
          /\ ParseNum(k, 10).ok /\ NumberOf(k) > Deref(cacheNumber)
          /\ ~Qualifies(k, derFiles, metaFiles, now)

\* C15: a regeneration that succeeded and whose two writes succeeded has
\* left, under the decimal digits of the new list's number, a payload that
\* is the list it installed and returned, and a metadata file holding the
\* whole seconds of the list's generation timestamp and a newline; a process
\* that restored such a record holds the same list, the number the list
\* carries (the one the writer held) and the generation timestamp cut to
\* whole seconds.
C15_PersistRecover ==
    /\ \A p \in Procs :
          (hist[p].path = "generated" /\ pc[p] \in {"unlock", "done"}) =>
              /\ hist[p].writes >= 1
              /\ (hist[p].writes = 2 /\ ~hist[p].saveErr) =>
                    LET b == Deref(ret[p].crl)
                        k == FormatInt(b.Number)
                    IN  /\ k \in DOMAIN derFiles /\ derFiles[k] = b
                        /\ k \in DOMAIN metaFiles
                        /\ metaFiles[k] = FormatInt(Unix(b.ThisUpdate)) \o << "\n" >>
                        /\ pc[p] = "unlock" => cachedCRL = Ptr(b) /\ cacheNumber = Ptr(b.Number)
    /\ (RestoredResident /\ DOMAIN derFiles[Deref(boot.restored)] # {"torn"}) =>
          LET k == Deref(boot.restored)
              b == derFiles[k]
          IN  /\ cachedCRL = Ptr(b)
              /\ cacheNumber = Ptr(b.Number)
              /\ k = FormatInt(b.Number)
              /\ cacheTime = Unix(b.ThisUpdate) * TicksPerSecond
              /\ now - cacheTime < cacheDuration \/ \E q \in Procs : pc[q] # "idle"

\* a restarted process holds the list an earlier process wrote, whose
\* generation timestamp was not on a whole second
C15_Witness ==
    /\ RestoredResident
    /\ DOMAIN derFiles[Deref(boot.restored)] # {"torn"}
    /\ cacheTime # Deref(cachedCRL).ThisUpdate

\* ---------------------------------------------------------------- C16
\* What the registry format says of one line, stated on its characters:
\* surrounding whitespace does not count; nothing or a leading "#" says
\* nothing; otherwise the line is well formed when exactly two colons cut it
\* into a hexadecimal number and two decimal integers, each an optional sign
\* followed by one digit or more.
DecChars == {"0", "1", "2", "3", "4", "5", "6", "7", "8", "9"}
HexChars == DecChars \cup {"a", "b", "c", "d", "e", "f", "A", "B", "C", "D", "E", "F"}
Unsigned(f) == IF f # << >> /\ f[1] \in {"+", "-"} THEN SubSeq(f, 2, Len(f)) ELSE f
IsNumeral(f, chars) ==
    /\ Unsigned(f) # << >>
    /\ \A i \in 1 .. Len(Unsigned(f)) : Unsigned(f)[i] \in chars
RECURSIVE Magnitude(_, _)
Magnitude(ds, base) ==
    IF ds = << >> THEN 0
    ELSE Magnitude(SubSeq(ds, 1, Len(ds) - 1), base) * base + DigitVal(ds[Len(ds)])
ValueOf(f, base) ==
    IF f[1] = "-" THEN 0 - Magnitude(Unsigned(f), base) ELSE Magnitude(Unsigned(f), base)
Colons(t) == {i \in 1 .. Len(t) : t[i] = ":"}
Silent(l) == TrimSpace(l) = << >> \/ TrimSpace(l)[1] = "#"
WellFormed(l) ==
    LET t == TrimSpace(l)
    IN  /\ ~Silent(l)
        /\ Cardinality(Colons(t)) = 2
        /\ LET i == CHOOSE x \in Colons(t) : \A y \in Colons(t) : x <= y
               j == CHOOSE x \in Colons(t) : \A y \in Colons(t) : x >= y
           IN  /\ IsNumeral(SubSeq(t, 1, i - 1), HexChars)
               /\ IsNumeral(SubSeq(t, i + 1, j - 1), DecChars)
               /\ IsNumeral(SubSeq(t, j + 1, Len(t)), DecChars)
Malformed(l) == ~Silent(l) /\ ~WellFormed(l)
EntryOf(l) ==
    LET t == TrimSpace(l)
        i == CHOOSE x \in Colons(t) : \A y \in Colons(t) : x <= y
        j == CHOOSE x \in Colons(t) : \A y \in Colons(t) : x >= y
    IN  [SerialNumber   |-> ValueOf(SubSeq(t, 1, i - 1), 16),
         RevocationTime |-> ValueOf(SubSeq(t, i + 1, j - 1), 10),
         Reason         |-> ValueOf(SubSeq(t, j + 1, Len(t)), 10)]
RECURSIVE EntriesOf(_)
EntriesOf(lines) ==
    IF lines = << >> THEN << >>
    ELSE (IF WellFormed(Head(lines)) THEN << EntryOf(Head(lines)) >> ELSE << >>)
         \o EntriesOf(Tail(lines))
MalformedCount(lines) == Cardinality({i \in 1 .. Len(lines) : Malformed(lines[i])})
PastLoadList == {"create", "upd158", "upd159", "upd160", "saveDer", "saveMeta"}

\* Request p has read the registry file f: the load gave the entries of the
\* well-formed lines of f in file order with one warning per malformed line
\* and no error, and p goes on to sign exactly those entries.
RegistryTolerated(p, f) ==
    /\ LET r == loadRevokedCertificates(f)
       IN  /\ r.err = ""
           /\ r.revokedCerts = EntriesOf(f.lines)
           /\ r.warnings = MalformedCount(f.lines)
    /\ pc[p] \in PastLoadList => loc[p].revokedCerts = EntriesOf(f.lines)
    /\ ret[p].err # "loading revoked certificates"
HasRead(p) == hist[p].lists > 0 /\ Deref(hist[p].list).state = "ok"
FitsBuffer(f) == \A i \in 1 .. Len(f.lines) : ~TooLong(f.lines[i])

\* C16: blank lines and comments are ignored, a malformed line is reported
\* by one warning and skipped and never aborts the load, and the entries of
\* the well-formed lines come out in file order.
C16_RegistryTolerance ==
    \A p \in Procs : HasRead(p) => RegistryTolerated(p, Deref(hist[p].list))

\* the same for a registry of which every line fits the scanner's buffer
C16_ToleranceOfShortLines ==
    \A p \in Procs : (HasRead(p) /\ FitsBuffer(Deref(hist[p].list)))
                        => RegistryTolerated(p, Deref(hist[p].list))

\* the four lines of the example have been read and three of them dropped
C16_ExampleRead ==
    /\ listFile = ListOne
    /\ \E p \in Procs : pc[p] \in PastLoadList /\ Len(loc[p].revokedCerts) = 1
    /\ MalformedCount(listFile.lines) = 1


\* ---------------------------------------------------------------- C17
Installing == {"upd159", "upd160", "saveDer", "saveMeta"}

\* C17: a registry file that does not exist reads as no entries and no
\* error, and the regeneration that met it goes on to sign and install a
\* list without entries (it succeeds whenever the credential it loaded can
\* sign lists); a registry file that cannot be opened or read for another
\* reason ends the regeneration with an error and without a list.
C17_MissingRegistry ==
    \A p \in Procs : hist[p].lists > 0 =>
        LET f == Deref(hist[p].list)
            r == loadRevokedCertificates(f)
        IN  /\ f.state = "missing" =>
                /\ r.err = "" /\ r.revokedCerts = << >>
                /\ ret[p].err # "loading revoked certificates"
                /\ pc[p] \in PastLoadList => loc[p].revokedCerts = << >>
                /\ Generated(p) # Nil => Deref(Generated(p)).Entries = << >>
                /\ pc[p] \in Installing =>
                      cachedCRL # Nil /\ Deref(cachedCRL).Entries = << >>
                /\ (Deref(hist[p].cred).crlSign /\ pc[p] = "done") =>
                      /\ ret[p].err = "" /\ ret[p].crl # Nil
                      /\ Deref(ret[p].crl).Entries = << >>
            /\ f.state \in {"openerr", "readerr"} =>
                /\ r.err # ""
                /\ ret[p] = [crl |-> Nil, err |-> "loading revoked certificates"]
                /\ pc[p] \in {"unlock", "done"}
                /\ hist[p].encodes = 0 /\ loc[p].crlBytes = Nil

\* a request that found no registry file has installed a list without entries
C17_Witness ==
    \E p \in Procs :
        /\ hist[p].lists > 0 /\ Deref(hist[p].list).state = "missing"
        /\ pc[p] = "done" /\ ret[p].crl # Nil
        /\ cachedCRL = ret[p].crl /\ Deref(cachedCRL).Entries = << >>

\* a request that could not open the registry file has returned the error
C17_WitnessOpenError ==
    \E p \in Procs :
        /\ hist[p].lists > 0 /\ Deref(hist[p].list).state = "openerr"
        /\ pc[p] = "done" /\ resp[p].status = 500


\* ---------------------------------------------------------------- C18
\* the process has recovered nothing and has accepted no request
NothingServed ==
    /\ cachedCRL = Nil /\ cacheTime = ZeroTime /\ cacheNumber = Nil
    /\ ~boot.scanned /\ boot.restored = Nil
    /\ readers = {} /\ writer = Nil
    /\ \A p \in Procs : pc[p] = "idle" /\ resp[p] = RespZero /\ hist[p] = HistZero
C18_State == phase \in {"start", "fatal"} => NothingServed
\* a process whose credential does not load leaves its start only by ending,
\* and an ended process does nothing more (it can only be started again)
C18_Step ==
    /\ (phase = "start" /\ loadCertAndKey(crtKey).err # "") => phase' \in {"start", "fatal"}
    /\ phase = "fatal" => phase' \in {"fatal", "start"}

\* C18: a process that cannot load and parse the credential at its start
\* ends there: it recovers no list from the store, never listens and never
\* serves a request, whatever the store holds.
C18_FatalAtStartup == [] C18_State /\ [][C18_Step]_vars

\* the process has ended at its start over a store that holds a qualifying pair
C18_Witness ==
    /\ phase = "fatal"
    /\ loadCertAndKey(crtKey).err # ""
    /\ \E k \in Qualifying(derFiles, metaFiles, now) : derFiles[k] # NoRead


\* ---------------------------------------------------------------- C19
\* C19: a request for /healthz is answered with the fixed success response
\* whatever the state of the cache; it triggers no regeneration, returns no
\* list and does not fail when the credential, the registry or the encoder
\* fails.
C19_HealthProbe ==
    \A p \in Procs : url[p] = "/healthz" =>
        /\ pc[p] \notin RegenPcs
        /\ hist[p].loads = 0 /\ hist[p].lists = 0 /\ hist[p].encodes = 0
        /\ ret[p].crl = Nil
        /\ pc[p] = "done" => resp[p].status = 200

\* what the program does with /healthz: it answers as it answers "/"
C19_ProbeServedAsList ==
    \A p \in Procs : (url[p] = "/healthz" /\ pc[p] = "done") =>
        /\ resp[p] = Response(ret[p])
        /\ (resp[p].status = 200 /\ resp[p].body = ret[p].crl /\ ret[p].crl # Nil)
              \/ resp[p].status = 500
C19_ProbeRegenerated ==
    \E p \in Procs : url[p] = "/healthz" /\ pc[p] = "done" /\ hist[p].encodes = 1
                        /\ resp[p].status = 200
C19_ProbeFailed ==
    \E p \in Procs : url[p] = "/healthz" /\ pc[p] = "done" /\ resp[p].status = 500


\* ---------------------------------------------------------------- C20
Holds(p) == (IF p \in readers THEN {"R"} ELSE {}) \cup (IF writer = Ptr(p) THEN {"W"} ELSE {})
\* the locks a request holds at each position of getCRL: the shared lock
\* only at the first test, nothing while it waits for the exclusive lock,
\* the exclusive lock from the second test to the return, nothing afterwards
C20_Locks ==
    \A p \in Procs :
        /\ pc[p] \in {"idle", "lock", "done"} => Holds(p) = {}
        /\ pc[p] = "check1" => Holds(p) = {"R"}
        /\ pc[p] \in {"check2", "unlock"} \cup RegenPcs => Holds(p) = {"W"}
\* while request q keeps the exclusive lock no other request moves
C20_Blocked ==
    \A p, q \in Procs :
        (p # q /\ writer = Ptr(q) /\ writer' = Ptr(q)) => pc'[p] = pc[p]

\* C20: every request is answered in the end, with a list or an error; a
\* request gives the shared lock back before it asks for the exclusive one
\* and holds no lock once getCRL has returned, on the error returns too;
\* and while a regeneration has not returned every other request waits.
C20_TerminationAndLocks ==
    /\ [] C20_Locks
    /\ [][C20_Blocked]_vars
    /\ \A p \in Procs : <>(pc[p] = "done" /\ resp[p].status \in {200, 500})

\* every request has been answered, one of them after its regeneration
\* failed, another after waiting for the exclusive lock, and no lock is held
C20_Witness ==
    /\ \A p \in Procs : pc[p] = "done"
    /\ \E p, q \in Procs : /\ p # q /\ hist[p].path = "error"
                           /\ "W" \in hist[q].locks
    /\ readers = {} /\ writer = Nil


\* ---------------------------------------------------------------- C21
TookExclusive(p) == "W" \in hist[p].locks
\* every other request that has held the exclusive lock failed to regenerate
OthersFailed(q) == \A r \in Procs \ {q} : TookExclusive(r) => Aborted(r)
\* the error request p returned is the one its own reads produce
OwnOutcome(p) ==
    /\ ret[p].err = "loading certificate and key" =>
          hist[p].loads = 1 /\ loadCertAndKey(Deref(hist[p].cred)).err # ""
    /\ ret[p].err = "loading revoked certificates" =>
          hist[p].lists = 1 /\ loadRevokedCertificates(Deref(hist[p].list)).err # ""
    /\ ret[p].err = "creating CRL" =>
          hist[p].encodes = 1 /\ ~Deref(hist[p].cred).crlSign
    /\ hist[p].path = "generated" =>
          /\ hist[p].loads = 1 /\ hist[p].encodes = 1
          /\ loadCertAndKey(Deref(hist[p].cred)).err = ""
C21_State ==
    /\ Cardinality({p \in Procs : pc[p] = "loadCert"}) <= 1
    /\ \A p \in Procs :
          /\ hist[p].loads <= 1
          /\ OwnOutcome(p)
          /\ Aborted(p) => ~touched[p]
          /\ (pc[p] = "done" /\ TookExclusive(p) /\ OthersFailed(p)) =>
                hist[p].loads = 1 /\ hist[p].path \in {"generated", "error"}
C21_Step ==
    \A q \in Procs :
        (pc[q] = "check2" /\ pc'[q] \notin {"check2", "idle"} /\ OthersFailed(q)) =>
            /\ ~CacheValid
            /\ pc'[q] = "loadCert"

\* C21: a failed regeneration is neither kept nor handed on: a request that
\* takes the exclusive lock after nothing but failed regenerations finds the
\* cache still stale and makes its own attempt, loading the credential itself;
\* the loader runs at most once per request and in one request at a time, and
\* every request is answered with the outcome of its own attempt.
C21_FailuresNotShared == [] C21_State /\ [][C21_Step]_vars

\* two requests waited together, the first failed, and the second made its
\* own attempt and has its outcome
C21_Witness ==
    \E L, q \in Procs :
        /\ L # q /\ q \in hist[L].cohort /\ Aborted(L)
        /\ pc[q] = "done" /\ hist[q].loads = 1 /\ hist[L].loads = 1

\* every request loaded the credential, and every one of them failed
C21_WitnessAllFailed ==
    \A p \in Procs : pc[p] = "done" /\ CredFailed(p)

\* the first of two requests failed and the second regenerated
C21_WitnessMixed ==
    \E L, q \in Procs :
        /\ L # q /\ q \in hist[L].cohort /\ Aborted(L)
        /\ pc[q] = "done" /\ hist[q].path = "generated" /\ resp[q].status = 200


\* ---------------------------------------------------------------- C22
\* the pair named k carries a metadata timestamp later than the clock
FutureStamped(k) ==
    /\ k \in DOMAIN metaFiles /\ metaFiles[k] # NoReadMeta
    /\ ParseNum(TrimSpace(metaFiles[k]), 10).ok
    /\ MetaTime(k, metaFiles) > now
C22_State ==
    /\ (phase = "serving" /\ AllIdle /\ boot.scanned) =>
          /\ \A k \in DOMAIN derFiles :
                (FutureStamped(k) /\ ParseNum(k, 10).ok /\ derFiles[k] # DirEntry) =>
                    /\ Qualifies(k, derFiles, metaFiles, now)
                    /\ boot.selected # Nil
                    /\ NumberOf(Deref(boot.selected)) >= NumberOf(k)
          /\ boot.restored # Nil =>
                /\ cacheTime = MetaTime(Deref(boot.restored), metaFiles)
                /\ cacheNumber = Ptr(NumberOf(Deref(boot.restored)))
    /\ \A p \in Procs :
          (RestoredResident /\ hist[p].path = "cached1") =>
              /\ hist[p].loads = 0 /\ hist[p].lists = 0 /\ hist[p].encodes = 0
              /\ ret[p].crl = Ptr(derFiles[Deref(boot.restored)])
\* the first test of a request over the restored list turns on the metadata
\* timestamp alone, whatever the time since the start of the process
C22_Step ==
    \A p \in Procs :
        (pc[p] = "check1" /\ pc'[p] # "check1" /\ RestoredResident) =>
            LET stamp == MetaTime(Deref(boot.restored), metaFiles)
            IN  /\ now < stamp + cacheDuration =>
                    /\ pc'[p] = "done"
                    /\ resp'[p] = [status |-> 200,
                                   body |-> Ptr(derFiles[Deref(boot.restored)])]
                /\ now >= stamp + cacheDuration => pc'[p] = "lock"

\* C22: recovery asks only that clock - metadata timestamp be less than one
\* hour: a pair stamped in the future qualifies, the restored list takes the
\* metadata timestamp as cacheTime and the number of the file name as
\* cacheNumber, and requests are answered with it, without a regeneration,
\* until one hour after the metadata timestamp.
C22_NoLowerBoundOnAge == [] C22_State /\ [][C22_Step]_vars

\* a request has been answered from the restored list more than one hour
\* after the process started, the number of the list not being its timestamp
C22_Witness ==
    \E p \in Procs :
        /\ RestoredResident /\ pc[p] = "done" /\ hist[p].path = "cached1"
        /\ now > StartNow + cacheDuration
        /\ cacheTime > StartNow
        /\ Deref(cacheNumber) # Unix(cacheTime)


\* ---------------------------------------------------------------- C23
\* recovery selected a pair whose payload file cannot be read
SelectedUnreadable ==
    /\ phase = "serving" /\ boot.scanned /\ boot.selected # Nil
    /\ derFiles[Deref(boot.selected)] = NoRead
\* a pair of a lower number qualifies and its payload can be read
ReadableBelow(k) ==
    \E j \in Qualifying(derFiles, metaFiles, now) :
        /\ NumberOf(j) < NumberOf(k)
        /\ derFiles[j] # NoRead
NoEncodeYet == \A q \in Procs : hist[q].encodes = 0
C23_State ==
    /\ (phase = "serving" /\ AllIdle /\ boot.scanned) =>
          \A k \in Newest(derFiles, metaFiles, now) :
              (Newest(derFiles, metaFiles, now) = {k} /\ derFiles[k] = NoRead) =>
                  boot.selected = Ptr(k)
    /\ SelectedUnreadable =>
          /\ boot.restored = Nil
          /\ NoEncodeYet =>
                cachedCRL = Nil /\ cacheTime = ZeroTime /\ cacheNumber = Nil
          /\ \A p \in Procs :
                /\ hist[p].path \in {"cached1", "cached2"} => gens # << >>
                /\ (gens = << >> /\ pc[p] = "done") => hist[p].loads = 1
\* recovery ends in a listening process, whatever it found; and the first
\* test of a request over the cache recovery left empty sends it to regenerate
C23_Step ==
    /\ phase = "recover" => phase' \in {"recover", "serving"}
    /\ \A p \in Procs :
          (pc[p] = "check1" /\ pc'[p] # "check1" /\ SelectedUnreadable /\ NoEncodeYet) =>
              pc'[p] = "lock"

\* C23: when the payload of the pair recovery selected (greatest number,
\* valid and fresh metadata) cannot be read, nothing is restored, also when a
\* lower-numbered pair qualifies and is readable: the cache fields stay as
\* constructed, the process starts all the same, and no request is answered
\* from the cache before one has regenerated.
C23_NoFallback == [] C23_State /\ [][C23_Step]_vars

\* the selected payload was unreadable, a readable lower-numbered pair was at
\* hand, and a request has regenerated
C23_Witness ==
    /\ SelectedUnreadable
    /\ ReadableBelow(Deref(boot.selected))
    /\ \E p \in Procs : pc[p] = "done" /\ hist[p].path = "generated"

====
